---- MODULE Spec2Model ----
(***************************************************************************)
(* Access-control model of the snap-store vault: the auth.users identity   *)
(* table with its role-assignment trigger, the user_roles, notes and       *)
(* file_uploads tables, and the row-level policies the store evaluates on  *)
(* every statement.  Each action is one statement issued by a caller       *)
(* (auth.uid()), executed atomically by the store; lastOp records what the *)
(* statement returned to its caller.                                       *)
(***************************************************************************)
EXTENDS Integers, Naturals, Sequences, FiniteSets, Bags, TLC

\* ---------------------------------------------------------------- bounds
MaxUsers == 3
MaxRoleRows == 4
MaxNotes == 1
MaxFiles == 1
MaxObjects == 2
MaxTime == 2
MaxChecks == 2

\* ------------------------------------------------------------- universes
Ids == 1..MaxUsers
\* auth.uid() of a request that carries no session (SQL NULL)
Anon == 0
Callers == Ids \cup {Anon}
app_role == {"admin", "user"}
Titles == {"t1", "t2"}
\* notes.content is nullable
Contents == {"c1", "null"}
Categories == {"image", "document"}
\* values a caller may put in file_uploads.category
CategoryInputs == Categories \cup {"other"}
\* storage.buckets
Buckets == {"images", "documents"}
\* the first folder segment of a name that has no folder (SQL NULL)
NoFolder == 0
\* first folder segments a caller may put in an object name
Segments == Ids \cup {NoFolder}
\* the two upload components and what each writes
Components == {"ImagesGrid", "DocumentsList"}
bucketOf(comp) == IF comp = "ImagesGrid" THEN "images" ELSE "documents"
categoryOf(comp) == IF comp = "ImagesGrid" THEN "image" ELSE "document"
\* file.type, as the sequence of its parts
MimeTypes == {<<"image", "/", "png">>, <<"image">>, <<"text", "/", "plain">>, <<>>}
ImageMaxSize == 5 * 1024 * 1024
DocumentMaxSize == 10 * 1024 * 1024
\* file.size, at and just over either limit
FileSizes == {ImageMaxSize, ImageMaxSize + 1, DocumentMaxSize, DocumentMaxSize + 1}
Files == [type : MimeTypes, size : FileSizes]

\* users: auth.users; createdOrder: the identities in the order of their
\* creation; user_roles: a bag of (user_id, role) rows, the generated id column
\* only telling apart rows that are otherwise equal; notes, file_uploads: sets
\* of rows; now: the store's clock; lastOp: what the last statement returned;
\* trigCount[u]: the role rows the sign-up trigger inserted for u
VARIABLES users, createdOrder, user_roles, notes, nextNoteId,
          file_uploads, nextFileId, now, lastOp, trigCount

\* objects: storage.objects, rows (bucket_id, name), a name being the pair
\* (first folder segment, generated file name); nextObjId: the next generated
\* file name; profiles: the user_id column of public.profiles; toast: the last
\* toast a client handler showed; sent: the requests the last handler
\* invocation issued, in order.  One client (a browser tab) is followed:
\* session: the identity signed in there; flow: its upload in flight between
\* two awaits; uploading: the uploading flag of the mounted upload component;
\* isAdmin: the flag of useAdminRole; panel: the notes and files lists of the
\* AdminPanel, by id; form: the title and content fields of NotesList.  The
\* other clients show as statements sent to the store.  inflight: the requests
\* and transactions that have started and not yet finished, or finished and are
\* remembered; isLoading: the flag of useAdminRole.
VARIABLES objects, nextObjId, profiles, inflight, isLoading, toast, sent, session, flow, uploading,
          isAdmin, panel, form

\* the state of the followed client
client == <<toast, sent, session, flow, uploading, isAdmin, panel, form>>

\* the state beyond the identity store and the three tables
ext == <<objects, nextObjId, profiles, inflight, isLoading, toast, sent, session, flow, uploading,
         isAdmin, panel, form>>

vars == <<users, createdOrder, user_roles, notes, nextNoteId,
          file_uploads, nextFileId, now, lastOp, trigCount,
          objects, nextObjId, profiles, inflight, isLoading, toast, sent, session, flow, uploading,
          isAdmin, panel, form>>

\* ------------------------------------------------------------ predicates

\* auth.uid() = user_id : NULL = x is never true
uid_eq(caller, user_id) == caller # Anon /\ caller = user_id

\* has_role without its "AND role = _role"
has_role_any(_user_id, _role) ==
  \E r \in BagToSet(user_roles) : r.user_id = _user_id

\* has_role without its "WHERE user_id = _user_id"
has_role_anyone(_user_id, _role) ==
  \E r \in BagToSet(user_roles) : r.role = _role

has_role(_user_id, _role) ==
  \E r \in BagToSet(user_roles) : r.user_id = _user_id /\ r.role = _role

\* the has_role call a statement's policies make for the caller
RoleEval(caller) ==
  [uid |-> caller, role |-> "admin", result |-> has_role(caller, "admin")]

\* ---- notes policies (permissive policies of one command are OR-ed)
\* a select policy open to every signed-in identity
notes_select_all(caller, row) == caller # Anon

\* a select policy that trusts the client's isAdmin flag
notes_select_flag(caller, row) ==
  uid_eq(caller, row.user_id) \/ isAdmin

notes_select(caller, row) ==
  uid_eq(caller, row.user_id) \/ has_role(caller, "admin")

\* an insert policy that does not compare user_id
notes_insert_check_any(caller, row) == caller # Anon

notes_insert_check(caller, row) == uid_eq(caller, row.user_id)

\* an update policy with the admin override of select and delete
notes_update_using_admin(caller, row) ==
  uid_eq(caller, row.user_id) \/ has_role(caller, "admin")

notes_update_using(caller, row) == uid_eq(caller, row.user_id)

\* an update whose new row is not checked
notes_update_check_none(caller, row) == TRUE

\* an UPDATE policy without WITH CHECK applies its USING clause to the new row
notes_update_check(caller, row) == uid_eq(caller, row.user_id)

notes_delete(caller, row) ==
  uid_eq(caller, row.user_id) \/ has_role(caller, "admin")

\* ---- file_uploads policies
file_uploads_select(caller, row) ==
  uid_eq(caller, row.user_id) \/ has_role(caller, "admin")

file_uploads_insert_check(caller, row) == uid_eq(caller, row.user_id)

\* the delete policy before the admin policies were added
file_uploads_delete_owner(caller, row) == uid_eq(caller, row.user_id)

file_uploads_delete(caller, row) ==
  uid_eq(caller, row.user_id) \/ has_role(caller, "admin")

\* an update policy like the one of notes
file_uploads_update_owner(caller, row) == uid_eq(caller, row.user_id)

\* row level security is enabled and no policy FOR UPDATE or FOR ALL exists on
\* file_uploads: an update sees no row
file_uploads_update(caller, row) == FALSE

\* ---- profiles policies: the two admin policies; the table and its other
\* policies are created outside these migrations
profiles_select(caller, user_id) == has_role(caller, "admin")

profiles_delete(caller, user_id) == has_role(caller, "admin")

\* CHECK (category IN ('image', 'document'))
category_check(row) == row.category \in Categories

\* ---- storage.objects policies, one set per bucket
\* (storage.foldername(name))[1]
foldername1(name) == name[1]

\* a select policy with the admin override of the tables' select policies
objects_select_admin(caller, obj) ==
  \/ obj.bucket_id = "images" /\ uid_eq(caller, foldername1(obj.name))
  \/ obj.bucket_id = "documents" /\ uid_eq(caller, foldername1(obj.name))
  \/ has_role(caller, "admin")

objects_select(caller, obj) ==
  \/ obj.bucket_id = "images" /\ uid_eq(caller, foldername1(obj.name))
  \/ obj.bucket_id = "documents" /\ uid_eq(caller, foldername1(obj.name))

objects_insert_check(caller, obj) ==
  \/ obj.bucket_id = "images" /\ uid_eq(caller, foldername1(obj.name))
  \/ obj.bucket_id = "documents" /\ uid_eq(caller, foldername1(obj.name))

objects_delete(caller, obj) ==
  \/ obj.bucket_id = "images" /\ uid_eq(caller, foldername1(obj.name))
  \/ obj.bucket_id = "documents" /\ uid_eq(caller, foldername1(obj.name))

\* ---- user_roles policies
\* a select policy open to every signed-in identity
user_roles_select_all(caller, row) == caller # Anon

user_roles_select(caller, row) ==
  uid_eq(caller, row.user_id) \/ has_role(caller, "admin")

\* an insert policy that lets an identity add its own role rows
user_roles_insert_check_self(caller, row) ==
  has_role(caller, "admin") \/ uid_eq(caller, row.user_id)

user_roles_insert_check(caller, row) == has_role(caller, "admin")

user_roles_delete(caller, row) == has_role(caller, "admin")

\* ---------------------------------------------------------------- trigger

\* the count without "WHERE id != NEW.id"
handle_new_user_role_nofilter(new_id, all_users) ==
  LET user_count == Cardinality(all_users)
  IN  IF user_count = 0 THEN {"admin"} ELSE {"user"}

\* the first branch falling through to the second insert
handle_new_user_role_both(new_id, all_users) ==
  LET user_count == Cardinality({u \in all_users : u # new_id})
  IN  IF user_count = 0 THEN {"admin", "user"} ELSE {"user"}

\* the roles handle_new_user_role inserts for NEW, auth.users holding NEW already
handle_new_user_role(new_id, all_users) ==
  LET user_count == Cardinality({u \in all_users : u # new_id})
  IN  IF user_count = 0 THEN {"admin"} ELSE {"user"}

AddRole(tbl, uid, role) ==
  tbl (+) SetToBag({[user_id |-> uid, role |-> role]})

AddRoles(tbl, uid, roles) ==
  LET t1 == IF "admin" \in roles THEN AddRole(tbl, uid, "admin") ELSE tbl
  IN  IF "user" \in roles THEN AddRole(t1, uid, "user") ELSE t1

NoOp == [op |-> "init", caller |-> Anon, result |-> "ok", count |-> 0,
         rows |-> {}, evals |-> {}, target |-> 0, path |-> <<>>]

\* a string of the note form, by its lengths: core characters that neither
\* start nor end with white space, and pad white space around them
Str(core, pad) == [core |-> core, pad |-> pad]
length(s) == s.core + s.pad
\* String.prototype.trim
trim(s) == [core |-> s.core, pad |-> 0]
TitleMax == 200
ContentMax == 10000
\* titles and contents typed into the form: empty, at and just over the limits,
\* with and without white space around
TitleInputs == {Str(c, q) : c \in {0, 1, TitleMax, TitleMax + 1}, q \in {0, 1}}
ContentInputs == {Str(c, q) : c \in {0, ContentMax, ContentMax + 1}, q \in {0, 1}}

\* what is typed: every title with an empty content, and every content with a
\* one-character title
NoteInputs ==
  {[title |-> t, content |-> Str(0, 0)] : t \in TitleInputs}
    \cup {[title |-> Str(1, 0), content |-> x] : x \in ContentInputs}

\* useState("") of title and content
EmptyForm == [title |-> Str(0, 0), content |-> Str(0, 0)]

\* no toast on screen
NoToast == [title |-> "none", description |-> "none"]

\* no upload in flight
Idle == [pc |-> "idle"]

\* the AdminPanel lists before fetchAllData
NoPanel == [notes |-> {}, files |-> {}, profiles |-> {}]

Init ==
  /\ users = {}
  /\ createdOrder = <<>>
  /\ user_roles = EmptyBag
  /\ notes = {}
  /\ nextNoteId = 1
  /\ file_uploads = {}
  /\ nextFileId = 1
  /\ now = 0
  /\ lastOp = NoOp
  /\ trigCount = [u \in Ids |-> 0]
  /\ objects = {}
  /\ nextObjId = 1
  /\ profiles = {}
  /\ toast = NoToast
  /\ sent = <<>>
  /\ session = Anon
  /\ flow = Idle
  /\ uploading = FALSE
  /\ isAdmin = FALSE
  /\ panel = NoPanel
  /\ form = EmptyForm
  /\ inflight = {}
  /\ isLoading = TRUE

\* ----------------------------------------------------------- identity store

\* INSERT INTO auth.users with the AFTER INSERT trigger on_auth_user_created_role:
\* an exception raised inside the trigger aborts the whole statement.
SignUp(u, triggerRaises) ==
  /\ u \notin users
  /\ LET all_users == users \cup {u}
         roles == handle_new_user_role(u, all_users)
         unique_violation == \E r \in roles : has_role(u, r)
         failed == triggerRaises \/ unique_violation
         new_roles == AddRoles(user_roles, u, roles)
     IN  /\ BagCardinality(user_roles) + Cardinality(roles) <= MaxRoleRows
         /\ IF failed
            THEN /\ UNCHANGED <<users, createdOrder, user_roles, trigCount>>
                 /\ lastOp' = [NoOp EXCEPT !.op = "signup", !.caller = u,
                                           !.result = "error"]
            ELSE /\ users' = all_users
                 /\ createdOrder' = Append(createdOrder, u)
                 /\ user_roles' = new_roles
                 /\ trigCount' = [trigCount EXCEPT
                                    ![u] = BagCardinality(new_roles) - BagCardinality(user_roles)]
                 /\ lastOp' = [NoOp EXCEPT !.op = "signup", !.caller = u]
  /\ UNCHANGED <<notes, nextNoteId, file_uploads, nextFileId, now>>

\* the same statement as a transaction of its own beside others: the row is
\* inserted and the trigger runs, seeing the identities committed so far and
\* its own row, but no row of a transaction that is still open
SignUp_insert(u) ==
  /\ u \notin users
  /\ \A t \in inflight : t.user # u
  /\ LET roles == handle_new_user_role(u, users \cup {u})
     IN  inflight' = inflight \cup {[user |-> u, roles |-> roles]}
  /\ lastOp' = [NoOp EXCEPT !.op = "signup_insert", !.caller = u]
  /\ UNCHANGED <<users, createdOrder, user_roles, notes, nextNoteId,
                 file_uploads, nextFileId, now, trigCount>>

\* the transaction commits: the identity and its role rows become visible.
\* UNIQUE (user_id, role) cannot fail, the identity being new
SignUp_commit(t) ==
  /\ t \in inflight
  /\ BagCardinality(user_roles) + Cardinality(t.roles) <= MaxRoleRows
  /\ users' = users \cup {t.user}
  /\ createdOrder' = Append(createdOrder, t.user)
  /\ user_roles' = AddRoles(user_roles, t.user, t.roles)
  /\ trigCount' = [trigCount EXCEPT ![t.user] = Cardinality(t.roles)]
  /\ inflight' = inflight \ {t}
  /\ lastOp' = [NoOp EXCEPT !.op = "signup", !.caller = t.user]
  /\ UNCHANGED <<notes, nextNoteId, file_uploads, nextFileId, now>>

\* a request carries the session of an existing identity, or none
Callable == users \cup {Anon}

\* ------------------------------------------------------------- user_roles

SelectRoles(caller) ==
  /\ caller \in Callable
  /\ LET visible == [r \in {d \in BagToSet(user_roles) : user_roles_select(caller, d)}
                          |-> user_roles[r]]
     IN  lastOp' = [NoOp EXCEPT !.op = "select_roles", !.caller = caller,
                               !.rows = visible, !.count = BagCardinality(visible),
                               !.evals = IF user_roles = EmptyBag THEN {}
                                         ELSE {RoleEval(caller)}]
  /\ UNCHANGED <<users, createdOrder, user_roles, notes, nextNoteId,
                 file_uploads, nextFileId, now, trigCount>>

\* the insert without the table's UNIQUE (user_id, role)
InsertRole_nounique(caller, uid, role) ==
  /\ caller \in Callable
  /\ BagCardinality(user_roles) < MaxRoleRows
  /\ LET row == [user_id |-> uid, role |-> role]
         permitted == /\ user_roles_insert_check(caller, row)
                      /\ uid \in users
     IN  IF permitted
         THEN /\ user_roles' = AddRole(user_roles, uid, role)
              /\ lastOp' = [NoOp EXCEPT !.op = "insert_role", !.caller = caller,
                                        !.count = 1, !.evals = {RoleEval(caller)}]
         ELSE /\ UNCHANGED user_roles
              /\ lastOp' = [NoOp EXCEPT !.op = "insert_role", !.caller = caller,
                                        !.result = "error",
                                        !.evals = {RoleEval(caller)}]
  /\ UNCHANGED <<users, createdOrder, notes, nextNoteId,
                 file_uploads, nextFileId, now, trigCount>>

\* INSERT INTO user_roles (user_id, role): the policy's WITH CHECK, then
\* UNIQUE (user_id, role) and the foreign key to auth.users
InsertRole(caller, uid, role) ==
  /\ caller \in Callable
  /\ BagCardinality(user_roles) < MaxRoleRows
  /\ LET row == [user_id |-> uid, role |-> role]
         permitted == /\ user_roles_insert_check(caller, row)
                      /\ ~has_role(uid, role)
                      /\ uid \in users
     IN  IF permitted
         THEN /\ user_roles' = AddRole(user_roles, uid, role)
              /\ lastOp' = [NoOp EXCEPT !.op = "insert_role", !.caller = caller,
                                        !.count = 1, !.evals = {RoleEval(caller)}]
         ELSE /\ UNCHANGED user_roles
              /\ lastOp' = [NoOp EXCEPT !.op = "insert_role", !.caller = caller,
                                        !.result = "error",
                                        !.evals = {RoleEval(caller)}]
  /\ UNCHANGED <<users, createdOrder, notes, nextNoteId,
                 file_uploads, nextFileId, now, trigCount>>

\* DELETE FROM user_roles WHERE id = :id, the id being that of a row
\* (uid, role); the WHERE clause reads the row, so the SELECT policies apply too
DeleteRole(caller, uid, role) ==
  /\ caller \in Callable
  /\ LET row == [user_id |-> uid, role |-> role]
         hit == /\ BagIn(row, user_roles)
                /\ user_roles_select(caller, row)
                /\ user_roles_delete(caller, row)
     IN  /\ user_roles' = IF hit THEN user_roles (-) SetToBag({row}) ELSE user_roles
         /\ lastOp' = [NoOp EXCEPT !.op = "delete_role", !.caller = caller,
                                   !.count = IF hit THEN 1 ELSE 0,
                                   !.evals = IF BagIn(row, user_roles)
                                             THEN {RoleEval(caller)} ELSE {}]
  /\ UNCHANGED <<users, createdOrder, notes, nextNoteId,
                 file_uploads, nextFileId, now, trigCount>>

\* ------------------------------------------------------------------ notes

SelectNotes(caller) ==
  /\ caller \in Callable
  /\ LET visible == {r \in notes : notes_select(caller, r)}
     IN  lastOp' = [NoOp EXCEPT !.op = "select_notes", !.caller = caller,
                               !.rows = visible, !.count = Cardinality(visible),
                               !.evals = IF notes = {} THEN {} ELSE {RoleEval(caller)}]
  /\ UNCHANGED <<users, createdOrder, user_roles, notes, nextNoteId,
                 file_uploads, nextFileId, now, trigCount>>

\* INSERT INTO notes (user_id, title, content, updated_at): updated_at is a
\* plain column, DEFAULT now() when the statement leaves it out
InsertNote(caller, owner, title, content, updated_at) ==
  /\ caller \in Callable
  /\ nextNoteId <= MaxNotes
  /\ LET row == [id |-> nextNoteId, user_id |-> owner, title |-> title,
                 content |-> content, updated_at |-> updated_at]
     IN  IF notes_insert_check(caller, row)
         THEN /\ notes' = notes \cup {row}
              /\ nextNoteId' = nextNoteId + 1
              /\ lastOp' = [NoOp EXCEPT !.op = "insert_note", !.caller = caller,
                                        !.count = 1, !.target = row.id]
         ELSE /\ UNCHANGED <<notes, nextNoteId>>
              /\ lastOp' = [NoOp EXCEPT !.op = "insert_note", !.caller = caller,
                                        !.result = "error"]
  /\ UNCHANGED <<users, createdOrder, user_roles,
                 file_uploads, nextFileId, now, trigCount>>

\* BEFORE UPDATE trigger update_notes_updated_at
update_updated_at_column(new_row) == [new_row EXCEPT !.updated_at = now]

\* UPDATE notes SET title, content, user_id, updated_at WHERE id = :id
UpdateNote(caller, id, title, content, owner, updated_at) ==
  /\ caller \in Callable
  /\ LET targets == {r \in notes : /\ r.id = id
                                   /\ notes_select(caller, r)
                                   /\ notes_update_using(caller, r)}
         new(r) == update_updated_at_column(
                     [r EXCEPT !.title = title, !.content = content,
                               !.user_id = owner, !.updated_at = updated_at])
         evals == IF \E r \in notes : r.id = id THEN {RoleEval(caller)} ELSE {}
     IN  IF \E r \in targets : ~notes_update_check(caller, new(r))
         THEN /\ UNCHANGED notes
              /\ lastOp' = [NoOp EXCEPT !.op = "update_note", !.caller = caller,
                                        !.result = "error", !.target = id,
                                        !.evals = evals]
         ELSE /\ notes' = (notes \ targets) \cup {new(r) : r \in targets}
              /\ lastOp' = [NoOp EXCEPT !.op = "update_note", !.caller = caller,
                                        !.count = Cardinality(targets), !.target = id,
                                        !.evals = evals]
  /\ UNCHANGED <<users, createdOrder, user_roles, nextNoteId,
                 file_uploads, nextFileId, now, trigCount>>

\* DELETE FROM notes WHERE id = :id
DeleteNote(caller, id) ==
  /\ caller \in Callable
  /\ LET targets == {r \in notes : /\ r.id = id
                                   /\ notes_select(caller, r)
                                   /\ notes_delete(caller, r)}
     IN  /\ notes' = notes \ targets
         /\ lastOp' = [NoOp EXCEPT !.op = "delete_note", !.caller = caller,
                                   !.count = Cardinality(targets), !.target = id,
                                   !.evals = IF \E r \in notes : r.id = id
                                             THEN {RoleEval(caller)} ELSE {}]
  /\ UNCHANGED <<users, createdOrder, user_roles, nextNoteId,
                 file_uploads, nextFileId, now, trigCount>>

\* ----------------------------------------------------------- file_uploads

SelectFiles(caller) ==
  /\ caller \in Callable
  /\ LET visible == {r \in file_uploads : file_uploads_select(caller, r)}
     IN  lastOp' = [NoOp EXCEPT !.op = "select_files", !.caller = caller,
                               !.rows = visible, !.count = Cardinality(visible),
                               !.evals = IF file_uploads = {} THEN {}
                                         ELSE {RoleEval(caller)}]
  /\ UNCHANGED <<users, createdOrder, user_roles, notes, nextNoteId,
                 file_uploads, nextFileId, now, trigCount>>

InsertFile(caller, owner, category, storage_path) ==
  /\ caller \in Callable
  /\ nextFileId <= MaxFiles
  /\ LET row == [id |-> nextFileId, user_id |-> owner, category |-> category,
                 storage_path |-> storage_path]
     IN  IF file_uploads_insert_check(caller, row) /\ category_check(row)
         THEN /\ file_uploads' = file_uploads \cup {row}
              /\ nextFileId' = nextFileId + 1
              /\ lastOp' = [NoOp EXCEPT !.op = "insert_file", !.caller = caller,
                                        !.count = 1, !.target = row.id]
         ELSE /\ UNCHANGED <<file_uploads, nextFileId>>
              /\ lastOp' = [NoOp EXCEPT !.op = "insert_file", !.caller = caller,
                                        !.result = "error"]
  /\ UNCHANGED <<users, createdOrder, user_roles,
                 notes, nextNoteId, now, trigCount>>

\* DELETE FROM file_uploads WHERE id = :id
DeleteFile(caller, id) ==
  /\ caller \in Callable
  /\ LET targets == {r \in file_uploads : /\ r.id = id
                                          /\ file_uploads_select(caller, r)
                                          /\ file_uploads_delete(caller, r)}
     IN  /\ file_uploads' = file_uploads \ targets
         /\ lastOp' = [NoOp EXCEPT !.op = "delete_file", !.caller = caller,
                                   !.count = Cardinality(targets), !.target = id,
                                   !.evals = IF \E r \in file_uploads : r.id = id
                                             THEN {RoleEval(caller)} ELSE {}]
  /\ UNCHANGED <<users, createdOrder, user_roles, notes, nextNoteId,
                 nextFileId, now, trigCount>>

\* UPDATE file_uploads SET category = :category, storage_path = :storage_path
\* WHERE id = :id
UpdateFile(caller, id, category, storage_path) ==
  /\ caller \in Callable
  /\ LET targets == {r \in file_uploads : /\ r.id = id
                                          /\ file_uploads_select(caller, r)
                                          /\ file_uploads_update(caller, r)}
         new(r) == [r EXCEPT !.category = category, !.storage_path = storage_path]
     IN  IF \E r \in targets : ~category_check(new(r))
         THEN /\ UNCHANGED file_uploads
              /\ lastOp' = [NoOp EXCEPT !.op = "update_file", !.caller = caller,
                                        !.result = "error", !.target = id,
                                        !.path = storage_path]
         ELSE /\ file_uploads' = (file_uploads \ targets) \cup {new(r) : r \in targets}
              /\ lastOp' = [NoOp EXCEPT !.op = "update_file", !.caller = caller,
                                        !.count = Cardinality(targets), !.target = id,
                                        !.path = storage_path]
  /\ UNCHANGED <<users, createdOrder, user_roles, notes, nextNoteId,
                 nextFileId, now, trigCount>>

\* the store's clock advances
Tick ==
  /\ now < MaxTime
  /\ now' = now + 1
  /\ UNCHANGED <<users, createdOrder, user_roles, notes, nextNoteId,
                 file_uploads, nextFileId, lastOp, trigCount>>

\* --------------------------------------------------------- object storage

\* storage.from(bucket).upload(name, file): an INSERT into storage.objects
\* under the bucket's WITH CHECK; the request can also fail on its way
\* (transportError), and a name already taken is rejected
StorageUpload(caller, bucket, name, transportError) ==
  /\ caller \in Callable
  /\ LET obj == [bucket_id |-> bucket, name |-> name]
         stored == /\ ~transportError
                   /\ objects_insert_check(caller, obj)
                   /\ obj \notin objects
     IN  /\ objects' = IF stored THEN objects \cup {obj} ELSE objects
         /\ lastOp' = [NoOp EXCEPT !.op = "upload", !.caller = caller,
                                   !.result = IF stored THEN "ok" ELSE "error",
                                   !.count = IF stored THEN 1 ELSE 0,
                                   !.path = name]
  /\ UNCHANGED <<users, createdOrder, user_roles, notes, nextNoteId,
                 file_uploads, nextFileId, now, trigCount>>

\* storage.from(bucket).remove([name]): a DELETE on storage.objects; rows the
\* policies hide are not deleted and no error is returned
StorageRemove(caller, bucket, name) ==
  /\ caller \in Callable
  /\ LET targets == {o \in objects : /\ o.bucket_id = bucket /\ o.name = name
                                     /\ objects_select(caller, o)
                                     /\ objects_delete(caller, o)}
     IN  /\ objects' = objects \ targets
         /\ lastOp' = [NoOp EXCEPT !.op = "remove", !.caller = caller,
                                   !.count = Cardinality(targets),
                                   !.rows = targets, !.path = name]
  /\ UNCHANGED <<users, createdOrder, user_roles, notes, nextNoteId,
                 file_uploads, nextFileId, now, trigCount>>

\* storage.from(bucket).download(name): the object when the SELECT policy
\* shows it, an error otherwise
StorageDownload(caller, bucket, name) ==
  /\ caller \in Callable
  /\ LET visible == {o \in objects : /\ o.bucket_id = bucket /\ o.name = name
                                     /\ objects_select(caller, o)}
     IN  lastOp' = [NoOp EXCEPT !.op = "download", !.caller = caller,
                               !.result = IF visible = {} THEN "error" ELSE "ok",
                               !.count = Cardinality(visible),
                               !.rows = visible, !.path = name]
  /\ UNCHANGED <<users, createdOrder, user_roles, notes, nextNoteId,
                 file_uploads, nextFileId, now, trigCount, objects>>

\* ----------------------------------------------------------------- client

\* signInWithPassword / signOut in the followed client
SignIn(u) ==
  /\ u \in users
  /\ session' = u
  /\ UNCHANGED <<users, createdOrder, user_roles, notes, nextNoteId, file_uploads,
                 nextFileId, now, lastOp, trigCount, objects, nextObjId, profiles, inflight, isLoading,
                 toast, sent, flow, uploading, isAdmin, panel, form>>

SignOut ==
  /\ session # Anon
  /\ session' = Anon
  /\ UNCHANGED <<users, createdOrder, user_roles, notes, nextNoteId, file_uploads,
                 nextFileId, now, lastOp, trigCount, objects, nextObjId, profiles, inflight, isLoading,
                 toast, sent, flow, uploading, isAdmin, panel, form>>

\* the page is closed or reloaded: component state is lost, the stored session
\* is kept, and whatever request was in flight is not followed by the next one
Reload ==
  /\ flow' = Idle
  /\ uploading' = FALSE
  /\ toast' = NoToast
  /\ sent' = <<>>
  /\ isAdmin' = FALSE
  /\ panel' = NoPanel
  /\ form' = EmptyForm
  /\ isLoading' = TRUE
  /\ UNCHANGED <<users, createdOrder, user_roles, notes, nextNoteId, file_uploads,
                 nextFileId, now, lastOp, trigCount, objects, nextObjId, profiles,
                 inflight, session>>

\* String.prototype.startsWith on sequences of parts
startsWith(s, prefix) ==
  /\ Len(s) >= Len(prefix)
  /\ SubSeq(s, 1, Len(prefix)) = prefix

\* the image checks with the size limit of the documents component
handleFileChange_check_doclimit(comp, file) ==
  IF comp = "ImagesGrid"
  THEN IF ~startsWith(file.type, <<"image", "/">>) THEN "Please select an image file"
       ELSE IF file.size > DocumentMaxSize THEN "Image must be less than 5MB"
       ELSE "none"
  ELSE IF file.size > DocumentMaxSize THEN "File must be less than 10MB"
       ELSE "none"

\* the first rule of handleFileChange the file breaks, "none" when it passes
handleFileChange_check(comp, file) ==
  IF comp = "ImagesGrid"
  THEN IF ~startsWith(file.type, <<"image", "/">>) THEN "Please select an image file"
       ELSE IF file.size > ImageMaxSize THEN "Image must be less than 5MB"
       ELSE "none"
  ELSE IF file.size > DocumentMaxSize THEN "File must be less than 10MB"
       ELSE "none"

ErrorToast(description) == [title |-> "Error", description |-> description]

\* handleFileChange up to the first await that reaches the storage API: the
\* checks, setUploading(true), then uploadMutation's getUser and the generated
\* path.  A rejected mutateAsync throws past setUploading(false).
handleFileChange(comp, file) ==
  /\ flow.pc = "idle"
  /\ ~uploading
  /\ LET rule == handleFileChange_check(comp, file)
     IN  IF rule # "none"
         THEN /\ toast' = ErrorToast(rule)
              /\ sent' = <<>>
              /\ UNCHANGED <<flow, uploading, nextObjId>>
         ELSE /\ uploading' = TRUE
              /\ sent' = <<"getUser">>
              /\ IF session = Anon
                 THEN /\ toast' = ErrorToast("Not authenticated")
                      /\ UNCHANGED <<flow, nextObjId>>
                 ELSE /\ nextObjId <= MaxObjects
                      /\ flow' = [pc |-> "upload", comp |-> comp, user |-> session,
                                  file |-> file, filePath |-> <<session, nextObjId>>]
                      /\ nextObjId' = nextObjId + 1
                      /\ UNCHANGED toast
  /\ UNCHANGED <<users, createdOrder, user_roles, notes, nextNoteId, file_uploads,
                 nextFileId, now, lastOp, trigCount, objects, profiles, inflight, isLoading,
                 session, isAdmin, panel, form>>

\* the mutation going on to the insert whatever the upload returned
uploadMutation_afterUpload_ignore(uploadError) == "insert"

\* if (uploadError) throw uploadError
uploadMutation_afterUpload(uploadError) ==
  IF uploadError THEN "throw" ELSE "insert"

\* uploadMutation: storage.from(bucket).upload(filePath, file)
uploadMutation_upload(transportError) ==
  /\ flow.pc = "upload"
  /\ StorageUpload(session, bucketOf(flow.comp), flow.filePath, transportError)
  /\ sent' = Append(sent, "upload")
  /\ IF uploadMutation_afterUpload(lastOp'.result = "error") = "throw"
     THEN /\ toast' = ErrorToast("upload")
          /\ flow' = Idle
     ELSE /\ flow' = [flow EXCEPT !.pc = "insert"]
          /\ UNCHANGED toast
  /\ UNCHANGED <<nextObjId, profiles, inflight, isLoading, session, uploading, isAdmin, panel, form>>

\* a row that keeps the generated file name without its folder
uploadMutation_row_barename(comp, user, filePath) ==
  [user_id |-> user, category |-> categoryOf(comp),
   storage_path |-> <<NoFolder, filePath[2]>>]

\* the columns uploadMutation inserts: user_id: user.id, storage_path:
\* filePath and the component's category
uploadMutation_row(comp, user, filePath) ==
  [user_id |-> user, category |-> categoryOf(comp), storage_path |-> filePath]

\* uploadMutation: from("file_uploads").insert, then onSuccess or onError
uploadMutation_insert ==
  /\ flow.pc = "insert"
  /\ LET row == uploadMutation_row(flow.comp, flow.user, flow.filePath)
     IN  InsertFile(session, row.user_id, row.category, row.storage_path)
  /\ sent' = Append(sent, "insert")
  /\ flow' = Idle
  /\ IF lastOp'.result = "error"
     THEN /\ toast' = ErrorToast("insert")
          /\ UNCHANGED uploading
     ELSE /\ toast' = [title |-> "uploaded successfully", description |-> "none"]
          /\ uploading' = FALSE
  /\ UNCHANGED <<objects, nextObjId, profiles, inflight, isLoading, session, isAdmin, panel, form>>

\* the mutation going on to the delete whatever the removal returned
deleteMutation_afterRemove_ignore(storageError) == "delete"

\* if (storageError) throw storageError
deleteMutation_afterRemove(storageError) ==
  IF storageError THEN "throw" ELSE "delete"

\* deleteMutation.mutate(row) for a row on the component's list:
\* storage.from(bucket).remove([row.storage_path]); the request may fail on its
\* way, and then nothing is removed
deleteMutation_remove(comp, row, transportError) ==
  /\ flow.pc = "idle"
  /\ row \in file_uploads
  /\ row.category = categoryOf(comp)
  /\ file_uploads_select(session, row)
  /\ IF transportError
     THEN /\ lastOp' = [NoOp EXCEPT !.op = "remove", !.caller = session,
                                    !.result = "error", !.path = row.storage_path]
          /\ UNCHANGED <<users, createdOrder, user_roles, notes, nextNoteId,
                         file_uploads, nextFileId, now, trigCount, objects>>
     ELSE StorageRemove(session, bucketOf(comp), row.storage_path)
  /\ sent' = <<"remove">>
  /\ IF deleteMutation_afterRemove(lastOp'.result = "error") = "throw"
     THEN /\ toast' = ErrorToast("remove")
          /\ flow' = Idle
     ELSE /\ flow' = [pc |-> "delete", comp |-> comp, user |-> session, row |-> row,
                      storageError |-> lastOp'.result = "error"]
          /\ UNCHANGED toast
  /\ UNCHANGED <<nextObjId, profiles, inflight, isLoading, session, uploading,
                 isAdmin, panel, form>>

\* deleteMutation: from("file_uploads").delete().eq("id", row.id), then
\* onSuccess or onError
deleteMutation_delete(transportError) ==
  /\ flow.pc = "delete"
  /\ IF transportError
     THEN /\ lastOp' = [NoOp EXCEPT !.op = "delete_file", !.caller = session,
                                    !.result = "error", !.target = flow.row.id]
          /\ UNCHANGED <<users, createdOrder, user_roles, notes, nextNoteId,
                         file_uploads, nextFileId, now, trigCount>>
     ELSE DeleteFile(session, flow.row.id)
  /\ sent' = Append(sent, "file_uploads.delete")
  /\ flow' = Idle
  /\ toast' = IF lastOp'.result = "error" THEN ErrorToast("delete")
              ELSE [title |-> "deleted successfully", description |-> "none"]
  /\ UNCHANGED <<objects, nextObjId, profiles, inflight, isLoading, session,
                 uploading, isAdmin, panel, form>>

\* -------------------------------------------------------------- NotesList

\* the schema without the limit on the content
noteSchema_nocontentmax(title, content) ==
  IF length(trim(title)) < 1 THEN "Title is required"
  ELSE IF length(trim(title)) > TitleMax THEN "Title too long"
  ELSE "none"

\* noteSchema.safeParse: the message of the first issue, "none" on success;
\* both fields are trimmed before their lengths are checked
noteSchema(title, content) ==
  IF length(trim(title)) < 1 THEN "Title is required"
  ELSE IF length(trim(title)) > TitleMax THEN "Title too long"
  ELSE IF length(trim(content)) > ContentMax THEN "Content too long"
  ELSE "none"

\* setTitle / setContent from the input fields
TypeNote(title, content) ==
  /\ form' = [title |-> title, content |-> content]
  /\ UNCHANGED <<users, createdOrder, user_roles, notes, nextNoteId, file_uploads,
                 nextFileId, now, lastOp, trigCount, objects, nextObjId, profiles, inflight, isLoading,
                 toast, sent, session, flow, uploading, isAdmin, panel>>

\* createMutation.mutate({ title, content }): safeParse, getUser, the insert
\* of the note as typed, then onSuccess or onError
createMutation ==
  /\ LET issue == noteSchema(form.title, form.content)
     IN  IF issue # "none"
         THEN /\ toast' = ErrorToast(issue)
              /\ sent' = <<>>
              /\ UNCHANGED <<users, createdOrder, user_roles, notes, nextNoteId,
                             file_uploads, nextFileId, now, lastOp, trigCount, form>>
         ELSE IF session = Anon
         THEN /\ toast' = ErrorToast("Not authenticated")
              /\ sent' = <<"getUser">>
              /\ UNCHANGED <<users, createdOrder, user_roles, notes, nextNoteId,
                             file_uploads, nextFileId, now, lastOp, trigCount, form>>
         ELSE /\ InsertNote(session, session, form.title, form.content, now)
              /\ sent' = <<"getUser", "notes.insert">>
              /\ IF lastOp'.result = "error"
                 THEN toast' = ErrorToast("insert") /\ UNCHANGED form
                 ELSE /\ toast' = [title |-> "Note created successfully",
                                   description |-> "none"]
                      /\ form' = EmptyForm
  /\ UNCHANGED <<objects, nextObjId, profiles, inflight, isLoading, session, flow, uploading, isAdmin, panel>>

\* updateMutation.mutate({ id, title, content }): safeParse, the update of
\* title and content by id, then onSuccess or onError
updateMutation(id) ==
  /\ LET issue == noteSchema(form.title, form.content)
         kept == IF \E r \in notes : r.id = id
                 THEN CHOOSE r \in notes : r.id = id
                 ELSE [user_id |-> session, updated_at |-> now]
     IN  IF issue # "none"
         THEN /\ toast' = ErrorToast(issue)
              /\ sent' = <<>>
              /\ UNCHANGED <<users, createdOrder, user_roles, notes, nextNoteId,
                             file_uploads, nextFileId, now, lastOp, trigCount, form>>
         ELSE /\ UpdateNote(session, id, form.title, form.content,
                            kept.user_id, kept.updated_at)
              /\ sent' = <<"notes.update">>
              /\ IF lastOp'.result = "error"
                 THEN toast' = ErrorToast("update") /\ UNCHANGED form
                 ELSE /\ toast' = [title |-> "Note updated successfully",
                                   description |-> "none"]
                      /\ form' = EmptyForm
  /\ UNCHANGED <<objects, nextObjId, profiles, inflight, isLoading, session, flow, uploading, isAdmin, panel>>

\* ---------------------------------------------- NotesList in several tabs

\* the browser tabs that have NotesList open, each with a session of its own
Tabs == {1, 2}

\* the update with a condition on what the tab had read
updateMutation_eq_versioned(r, n) == n.id = r.id /\ n.title = r.seen

\* updateMutation: .eq("id", id), the only condition of the update
updateMutation_eq(r, n) == n.id = r.id

\* updateMutation.mutate in a tab signed in as c, for a note on its list, with
\* fields that pass noteSchema: the update request leaves the tab
updateMutation_send(tab, c, id, title, content) ==
  /\ c \in users
  /\ \A r \in inflight : r.tab # tab
  /\ \E n \in notes :
        /\ n.id = id /\ notes_select(c, n)
        /\ inflight' = inflight \cup
              {[tab |-> tab, caller |-> c, id |-> id, title |-> title,
                content |-> content, seen |-> n.title, status |-> "sent",
                overlap |-> \E r \in inflight : r.status = "sent",
                applied |-> FALSE, last |-> FALSE]}
  /\ UNCHANGED <<users, createdOrder, user_roles, notes, nextNoteId, file_uploads,
                 nextFileId, now, lastOp, trigCount, objects, nextObjId, profiles,
                 isLoading, client>>

\* the store executes the update of a request in flight and answers it
updateMutation_execute(r) ==
  /\ r \in inflight /\ r.status = "sent"
  /\ LET hit == {n \in notes : updateMutation_eq(r, n)}
         kept == IF hit # {} THEN CHOOSE n \in hit : TRUE
                 ELSE [id |-> 0, user_id |-> r.caller, updated_at |-> now]
     IN  UpdateNote(r.caller, kept.id, r.title, r.content, kept.user_id, kept.updated_at)
  /\ LET ok == lastOp'.result = "ok" /\ lastOp'.count = 1
     IN  inflight' = {[q EXCEPT !.last = IF ok THEN FALSE ELSE q.last] :
                         q \in inflight \ {r}}
                     \cup {[r EXCEPT !.status = "done", !.applied = ok, !.last = ok]}
  /\ UNCHANGED <<objects, nextObjId, profiles, isLoading, client>>

\* -------------------------------------------------------------- Auth page

\* handleAuth(true), the sign-up of the first Auth page: safeParse, then
\* supabase.auth.signUp, then the success toast; error goes to the catch block.
\* No profiles row is written.
handleAuth(u, valid, triggerRaises) ==
  /\ IF ~valid
     THEN /\ toast' = [title |-> "Validation Error", description |-> "schema"]
          /\ sent' = <<>>
          /\ UNCHANGED <<users, createdOrder, user_roles, notes, nextNoteId,
                         file_uploads, nextFileId, now, lastOp, trigCount>>
     ELSE /\ SignUp(u, triggerRaises)
          /\ sent' = <<"signUp">>
          /\ toast' = IF lastOp'.result = "error"
                      THEN ErrorToast("signUp")
                      ELSE [title |-> "Success!", description |-> "Account created"]
  /\ UNCHANGED <<objects, nextObjId, profiles, inflight, isLoading, session, flow, uploading,
                 isAdmin, panel, form>>

\* handleSignUp, the sign-up of the second Auth page: safeParse, then
\* supabase.auth.signUp, then the insert of { user_id, name } into profiles.
\* Each error is thrown to the catch block, which shows it; nothing undoes the
\* sign-up when the insert fails.  Whether the insert is let through is decided
\* by the profiles table and its insert policy, which the migrations of this
\* repository do not define: profileError stands for both outcomes.
handleSignUp(u, valid, triggerRaises, profileError) ==
  /\ IF ~valid
     THEN /\ toast' = [title |-> "Validation Error", description |-> "schema"]
          /\ sent' = <<>>
          /\ UNCHANGED <<users, createdOrder, user_roles, notes, nextNoteId,
                         file_uploads, nextFileId, now, lastOp, trigCount, profiles, inflight, isLoading>>
     ELSE /\ SignUp(u, triggerRaises)
          /\ IF lastOp'.result = "error"
             THEN /\ sent' = <<"signUp">>
                  /\ toast' = ErrorToast("signUp")
                  /\ UNCHANGED profiles
             ELSE /\ sent' = <<"signUp", "profiles.insert">>
                  /\ IF profileError
                     THEN /\ toast' = ErrorToast("profiles")
                          /\ UNCHANGED profiles
                     ELSE /\ toast' = [title |-> "Success!",
                                       description |-> "Account created"]
                          /\ profiles' = profiles \cup {u}
  /\ UNCHANGED <<objects, nextObjId, inflight, isLoading, session, flow, uploading,
                 isAdmin, panel, form>>

\* ------------------------------------------------------------ admin panel

\* useAdminRole.checkAdminRole, run on mount and on every auth state change:
\* getUser, the caller's user_roles rows, isAdmin := some row has role admin
checkAdminRole ==
  /\ IF session = Anon
     THEN /\ isAdmin' = FALSE
          /\ sent' = <<"getUser">>
          /\ UNCHANGED <<users, createdOrder, user_roles, notes, nextNoteId,
                         file_uploads, nextFileId, now, lastOp, trigCount>>
     ELSE /\ SelectRoles(session)
          /\ sent' = <<"getUser", "user_roles.select">>
          /\ isAdmin' = \E r \in BagToSet(lastOp'.rows) :
                           r.user_id = session /\ r.role = "admin"
  /\ isLoading' = FALSE
  /\ UNCHANGED <<objects, nextObjId, profiles, inflight, toast, session, flow,
                 uploading, panel, form>>

\* ---- useAdminRole with its checks in flight.  A check is a record of its
\* position and of what its awaits returned; the requests are answered without
\* error.

\* the hook has been mounted: its first check has started
Mounted == ~isLoading \/ inflight # {}

\* a call of checkAdminRole: the getUser request leaves
checkAdminRole_start ==
  inflight' = inflight \cup {[pc |-> "getUser", user |-> Anon, hasAdminRole |-> FALSE]}

\* useEffect on mount: checkAdminRole()
useAdminRole_mount ==
  /\ ~Mounted
  /\ checkAdminRole_start
  /\ UNCHANGED <<users, createdOrder, user_roles, notes, nextNoteId, file_uploads,
                 nextFileId, now, lastOp, trigCount, objects, nextObjId, profiles,
                 isLoading, client>>

\* the session of the tab changes (sign-in as u, or sign-out with u = Anon) and
\* the onAuthStateChange subscription of a mounted hook calls checkAdminRole()
onAuthStateChange(u) ==
  /\ u \in Callable
  /\ u # session
  /\ Cardinality(inflight) < MaxChecks
  /\ session' = u
  /\ IF Mounted THEN checkAdminRole_start ELSE UNCHANGED inflight
  /\ UNCHANGED <<users, createdOrder, user_roles, notes, nextNoteId, file_uploads,
                 nextFileId, now, lastOp, trigCount, objects, nextObjId, profiles,
                 isLoading, toast, sent, flow, uploading, isAdmin, panel, form>>

\* await getUser() returns: without a user the check ends with
\* setIsAdmin(false) and setIsLoading(false), else the role select leaves
checkAdminRole_getUser(c) ==
  /\ c \in inflight /\ c.pc = "getUser"
  /\ IF session = Anon
     THEN /\ isAdmin' = FALSE
          /\ isLoading' = FALSE
          /\ inflight' = inflight \ {c}
     ELSE /\ inflight' = (inflight \ {c}) \cup {[c EXCEPT !.pc = "select", !.user = session]}
          /\ UNCHANGED <<isAdmin, isLoading>>
  /\ UNCHANGED <<users, createdOrder, user_roles, notes, nextNoteId, file_uploads,
                 nextFileId, now, lastOp, trigCount, objects, nextObjId, profiles,
                 toast, sent, session, flow, uploading, panel, form>>

\* the store executes the select of user_roles with user_id = user.id, for the
\* session the request was sent with; the answer is on its way back
checkAdminRole_select(c) ==
  /\ c \in inflight /\ c.pc = "select"
  /\ SelectRoles(session)
  /\ LET hasAdminRole == \E r \in BagToSet(lastOp'.rows) :
                             r.user_id = c.user /\ r.role = "admin"
     IN  inflight' = (inflight \ {c}) \cup
                       {[c EXCEPT !.pc = "set", !.hasAdminRole = hasAdminRole]}
  /\ UNCHANGED <<objects, nextObjId, profiles, isLoading, client>>

\* the answer arrives: setIsAdmin(hasAdminRole), finally setIsLoading(false)
checkAdminRole_set(c) ==
  /\ c \in inflight /\ c.pc = "set"
  /\ isAdmin' = c.hasAdminRole
  /\ isLoading' = FALSE
  /\ inflight' = inflight \ {c}
  /\ UNCHANGED <<users, createdOrder, user_roles, notes, nextNoteId, file_uploads,
                 nextFileId, now, lastOp, trigCount, objects, nextObjId, profiles,
                 toast, sent, session, flow, uploading, panel, form>>

\* AdminPanel.fetchAllData, run by the effect on isAdmin: select * from notes
\* and from file_uploads; the lists keep what the store returned
fetchAllData ==
  /\ isAdmin
  /\ SelectNotes(session)
  /\ panel' = [notes |-> {r.id : r \in lastOp'.rows},
               files |-> {r.id : r \in {f \in file_uploads :
                                          file_uploads_select(session, f)}},
               profiles |-> {u \in profiles : profiles_select(session, u)}]
  /\ sent' = <<"notes.select", "file_uploads.select", "profiles.select">>
  /\ UNCHANGED <<objects, nextObjId, profiles, inflight, isLoading, toast, session, flow, uploading,
                 isAdmin, form>>

\* AdminPanel.handleDeleteNote for a note of the list: the delete by id, then
\* the error toast when the store returned an error, else the note leaves the
\* list and the success toast is shown
handleDeleteNote(id) ==
  /\ isAdmin
  /\ id \in panel.notes
  /\ DeleteNote(session, id)
  /\ sent' = <<"notes.delete">>
  /\ IF lastOp'.result = "error"
     THEN /\ toast' = ErrorToast("Failed to delete note")
          /\ UNCHANGED panel
     ELSE /\ toast' = [title |-> "Success", description |-> "Note deleted successfully"]
          /\ panel' = [panel EXCEPT !.notes = panel.notes \ {id}]
  /\ UNCHANGED <<objects, nextObjId, profiles, inflight, isLoading, session, flow, uploading, isAdmin, form>>

\* DELETE FROM profiles WHERE id = :profileId, the profile being that of
\* user_id; notes and file_uploads have no foreign key to profiles
DeleteProfile(caller, user_id) ==
  /\ caller \in Callable
  /\ LET targets == {u \in profiles : /\ u = user_id
                                      /\ profiles_select(caller, u)
                                      /\ profiles_delete(caller, u)}
     IN  /\ profiles' = profiles \ targets
         /\ lastOp' = [NoOp EXCEPT !.op = "delete_profile", !.caller = caller,
                                   !.count = Cardinality(targets), !.target = user_id]
  /\ UNCHANGED <<users, createdOrder, user_roles, notes, nextNoteId,
                 file_uploads, nextFileId, now, trigCount>>

\* AdminPanel.handleDeleteUser(userId, profileId) for a profile of the list:
\* the delete of the profile, then the error toast, or the profile and the
\* notes and files of userId leave the lists and the success toast is shown.
\* The lists hold ids; the user_id of a listed row is read from the table.
handleDeleteUser(userId) ==
  /\ isAdmin
  /\ userId \in panel.profiles
  /\ DeleteProfile(session, userId)
  /\ sent' = <<"profiles.delete">>
  /\ IF lastOp'.result = "error"
     THEN /\ toast' = ErrorToast("Failed to delete user profile")
          /\ UNCHANGED panel
     ELSE /\ toast' = [title |-> "Success",
                       description |-> "User profile deleted successfully"]
          /\ panel' = [profiles |-> panel.profiles \ {userId},
                       notes |-> panel.notes \
                                   {n.id : n \in {m \in notes : m.user_id = userId}},
                       files |-> panel.files \
                                   {f.id : f \in {g \in file_uploads : g.user_id = userId}}]
  /\ UNCHANGED <<objects, nextObjId, inflight, isLoading, session, flow, uploading,
                 isAdmin, form>>

\* the storagePath argument left out
Undefined == <<>>

\* AdminPanel.handleDeleteFile(id, storagePath?): with a storagePath, remove
\* from both buckets first, the results ignored; then the delete by id
handleDeleteFile(id, storagePath) ==
  /\ isAdmin
  /\ id \in panel.files
  /\ LET removed == IF storagePath = Undefined THEN {}
                    ELSE {o \in objects : /\ o.name = storagePath
                                          /\ o.bucket_id \in {"images", "documents"}
                                          /\ objects_select(session, o)
                                          /\ objects_delete(session, o)}
     IN  objects' = objects \ removed
  /\ DeleteFile(session, id)
  /\ sent' = IF storagePath = Undefined THEN <<"file_uploads.delete">>
             ELSE <<"images.remove", "documents.remove", "file_uploads.delete">>
  /\ IF lastOp'.result = "error"
     THEN /\ toast' = ErrorToast("Failed to delete file")
          /\ UNCHANGED panel
     ELSE /\ toast' = [title |-> "Success", description |-> "File deleted successfully"]
          /\ panel' = [panel EXCEPT !.files = panel.files \ {id}]
  /\ UNCHANGED <<nextObjId, profiles, inflight, isLoading, session, flow, uploading, isAdmin, form>>

\* ---------------------------------------------------------- specifications

\* the steps below are statements sent to the store directly: nothing but the
\* identity store and the tables changes
IdentityStep ==
  \E u \in Ids, f \in BOOLEAN : SignUp(u, f) /\ UNCHANGED ext

RoleStep ==
  \/ \E c \in Callers : SelectRoles(c) /\ UNCHANGED ext
  \/ \E c \in Callers, u \in Ids, r \in app_role :
        InsertRole(c, u, r) /\ UNCHANGED ext
  \/ \E c \in Callers, u \in Ids, r \in app_role :
        DeleteRole(c, u, r) /\ UNCHANGED ext

\* the role changes the notes and file_uploads policies can tell apart: they
\* call has_role(auth.uid(), 'admin') only
AdminChange ==
  \/ \E c \in Callers, u \in Ids : InsertRole(c, u, "admin") /\ UNCHANGED ext
  \/ \E c \in Callers, u \in Ids : DeleteRole(c, u, "admin") /\ UNCHANGED ext

NoteRowStep ==
  \/ \E c \in Callers : SelectNotes(c) /\ UNCHANGED ext
  \/ \E c \in Callers, o \in Ids, t \in Titles, x \in Contents :
        InsertNote(c, o, t, x, now) /\ UNCHANGED ext
  \/ \E c \in Callers, i \in 1..MaxNotes : DeleteNote(c, i) /\ UNCHANGED ext

NoteUpdateStep ==
  \E c \in Callers, i \in 1..MaxNotes, o \in Ids, t \in Titles, x \in Contents :
     UpdateNote(c, i, t, x, o, now) /\ UNCHANGED ext

FileStep ==
  \/ \E c \in Callers : SelectFiles(c) /\ UNCHANGED ext
  \/ \E c \in Callers, o \in Ids, k \in CategoryInputs :
        InsertFile(c, o, k, <<o, nextFileId>>) /\ UNCHANGED ext
  \/ \E c \in Callers, i \in 1..MaxFiles : DeleteFile(c, i) /\ UNCHANGED ext

FileUpdateStep ==
  \E c \in Callers, i \in 1..MaxFiles, k \in CategoryInputs, g \in Segments :
     UpdateFile(c, i, k, <<g, i>>) /\ UNCHANGED ext

\* requests sent to the storage API directly; a generated file name is used
\* once, and the names removed or downloaded are those of objects that exist
StorageStep ==
  \/ \E c \in Callers, b \in Buckets, g \in Segments, e \in BOOLEAN :
        /\ nextObjId <= MaxObjects
        /\ StorageUpload(c, b, <<g, nextObjId>>, e)
        /\ nextObjId' = nextObjId + 1
        /\ UNCHANGED <<profiles, inflight, isLoading, client>>
  \/ \E c \in Callers, o \in objects :
        /\ StorageRemove(c, o.bucket_id, o.name)
        /\ UNCHANGED <<nextObjId, profiles, inflight, isLoading, client>>
  \/ \E c \in Callers, o \in objects :
        /\ StorageDownload(c, o.bucket_id, o.name)
        /\ UNCHANGED <<nextObjId, profiles, inflight, isLoading, client>>

SessionStep ==
  \/ \E u \in Ids : SignIn(u)
  \/ SignOut

UploadStep ==
  \/ \E k \in Components, f \in Files : handleFileChange(k, f)
  \/ \E e \in BOOLEAN : uploadMutation_upload(e)
  \/ uploadMutation_insert

\* the delete button of the files table calls handleDeleteFile(file.id)
PanelFileStep ==
  \/ checkAdminRole
  \/ fetchAllData
  \/ \E i \in 1..MaxFiles : handleDeleteFile(i, Undefined)

PanelNoteStep ==
  \/ checkAdminRole
  \/ fetchAllData
  \/ \E i \in 1..MaxNotes : handleDeleteNote(i)

\* an upload of one image or document that passes the checks
UploadOneStep ==
  \/ \E k \in Components :
        handleFileChange(k, [type |-> <<"image", "/", "png">>, size |-> ImageMaxSize])
  \/ \E e \in BOOLEAN : uploadMutation_upload(e)
  \/ uploadMutation_insert

\* notes written by the other clients
OtherNoteStep ==
  \E c \in Callers :
     InsertNote(c, c, "t1", "c1", now) /\ UNCHANGED ext

\* notes written and rewritten by their owners with a timestamp of the
\* caller's choosing
TimedNoteStep ==
  \/ \E c \in Callers, ts \in 0..MaxTime :
        InsertNote(c, c, "t1", "c1", ts) /\ UNCHANGED ext
  \/ \E c \in Callers, i \in 1..MaxNotes, t \in Titles, ts \in 0..MaxTime :
        UpdateNote(c, i, t, "c1", c, ts) /\ UNCHANGED ext
  \/ Tick /\ UNCHANGED ext

NoteFormStep ==
  \/ \E f \in NoteInputs : TypeNote(f.title, f.content)
  \/ createMutation
  \/ \E i \in 1..MaxNotes : updateMutation(i)

Next ==
  \/ IdentityStep
  \/ AdminChange
  \/ NoteRowStep
  \/ FileStep

\* sign-ups, admin grants and revocations, and the selects, inserts and deletes
\* of notes and file_uploads rows
Spec == Init /\ [][Next]_vars

\* identities and the whole of role management
SpecRoles == Init /\ [][IdentityStep \/ RoleStep]_vars

\* sign-ups, admin grants and revocations, and every statement on notes
SpecNotes == Init /\ [][IdentityStep \/ AdminChange \/ NoteRowStep \/ NoteUpdateStep]_vars

\* sign-ups, admin grants and revocations, and the object storage requests
SpecStorage == Init /\ [][IdentityStep \/ AdminChange \/ StorageStep]_vars

\* sign-ups, and the followed client signing in and out, uploading files and
\* being reloaded
SpecUpload == Init /\ [][IdentityStep \/ SessionStep \/ UploadStep \/ Reload]_vars

\* sign-ups, uploads by the followed client under one identity and its admin
\* panel under another
SpecPanelFiles ==
  Init /\ [][IdentityStep \/ SessionStep \/ UploadOneStep \/ PanelFileStep]_vars

\* sign-ups, admin grants and revocations, notes of the other clients, and the
\* admin panel of the followed client
SpecPanelNotes ==
  Init /\ [][IdentityStep \/ AdminChange \/ SessionStep \/ OtherNoteStep
              \/ PanelNoteStep \/ Reload]_vars

\* sign-ups, the clock, and notes inserted and updated by their owners
SpecTime == Init /\ [][IdentityStep \/ TimedNoteStep]_vars

\* sign-ups, and the followed client signing in and out and creating and
\* updating notes through the form of NotesList
SpecNoteForm == Init /\ [][IdentityStep \/ SessionStep \/ NoteFormStep]_vars

\* sign-ups, admin grants and revocations, and every statement on file_uploads
SpecFiles == Init /\ [][IdentityStep \/ AdminChange \/ FileStep \/ FileUpdateStep]_vars

\* sign-ups through the second Auth page that go through with their profile
ProfiledSignUpStep ==
  \E u \in Ids : handleSignUp(u, TRUE, FALSE, FALSE)

PanelUserStep ==
  \/ checkAdminRole
  \/ fetchAllData
  \/ \E u \in Ids : handleDeleteUser(u)

\* sign-ups with profiles, notes of the other clients, and the admin panel of
\* the followed client deleting profiles
SpecPanelUsers ==
  Init /\ [][ProfiledSignUpStep \/ SessionStep \/ OtherNoteStep \/ PanelUserStep]_vars

ConcurrentSignUpStep ==
  \/ \E u \in Ids : SignUp_insert(u) /\ UNCHANGED <<objects, nextObjId, profiles,
                                                     isLoading, client>>
  \/ \E t \in inflight : SignUp_commit(t) /\ UNCHANGED <<objects, nextObjId, profiles,
                                                         isLoading, client>>

\* sign-ups as transactions that run beside each other; every role row is one
\* the trigger inserted
SpecSignUpRace == Init /\ [][ConcurrentSignUpStep]_vars

\* sign-ups, and the followed client signing in and out and uploading, the
\* page staying mounted; a request that was sent is answered, so each step of
\* an upload in flight is taken in the end
SpecUploadFair ==
  /\ Init /\ [][IdentityStep \/ SessionStep \/ UploadOneStep]_vars
  /\ WF_vars(\E e \in BOOLEAN : uploadMutation_upload(e))
  /\ WF_vars(uploadMutation_insert)

HookStep ==
  \/ useAdminRole_mount
  \/ \E u \in Callers : onAuthStateChange(u)
  \/ \E c \in inflight : checkAdminRole_getUser(c)
  \/ \E c \in inflight : checkAdminRole_select(c)
  \/ \E c \in inflight : checkAdminRole_set(c)

\* sign-ups, and the followed client signing in and out with the checks of
\* useAdminRole in flight beside each other
SpecAdminHook == Init /\ [][IdentityStep \/ HookStep]_vars

OwnerDeleteStep ==
  \/ \E k \in Components, r \in file_uploads, e \in BOOLEAN :
        deleteMutation_remove(k, r, e)
  \/ \E e \in BOOLEAN : deleteMutation_delete(e)

\* sign-ups, and the followed client signing in and out, uploading one image or
\* document and deleting it from the component's list
SpecOwnerDelete ==
  Init /\ [][IdentityStep \/ SessionStep \/ UploadOneStep \/ OwnerDeleteStep]_vars

TabStep ==
  \/ \E tab \in Tabs, c \in Ids, i \in 1..MaxNotes, t \in Titles, x \in Contents :
        updateMutation_send(tab, c, i, t, x)
  \/ \E r \in inflight : updateMutation_execute(r)

\* sign-ups, notes inserted by their owners, and two tabs that send updates
\* the store executes in any order
SpecTabs == Init /\ [][IdentityStep \/ OtherNoteStep \/ TabStep]_vars

\* the two sign-up handlers of the Auth page
AuthStep ==
  \/ \E u \in Ids, v \in BOOLEAN, f \in BOOLEAN : handleAuth(u, v, f)
  \/ \E u \in Ids, v \in BOOLEAN, f \in BOOLEAN, e \in BOOLEAN :
        handleSignUp(u, v, f, e)

\* identities are created through the Auth page only; the followed client signs
\* in and out
SpecSignUp == Init /\ [][AuthStep \/ SessionStep]_vars

\* ------------------------------------------------------------------ claims

\* the identity holds the admin role: the role table has a row (I, admin)
HoldsAdmin(I) ==
  \E r \in BagToSet(user_roles) : r.user_id = I /\ r.role = "admin"

RolesOf(I) == {r.role : r \in {d \in BagToSet(user_roles) : d.user_id = I}}

OwnedBy(tbl, I) == {r \in tbl : r.user_id = I}

\* the role rows of I, with their multiplicity
RoleRowsOf(I) ==
  [r \in {d \in BagToSet(user_roles) : d.user_id = I} |-> user_roles[r]]

\* C1: a select on notes, and likewise on file_uploads, performed as identity I
\* returns exactly the rows owned by I when I does not hold admin, and every
\* row of the table when I holds admin.
C1_SelectOwnOrAll ==
  /\ lastOp.op = "select_notes" =>
       lastOp.rows = IF HoldsAdmin(lastOp.caller) THEN notes
                     ELSE OwnedBy(notes, lastOp.caller)
  /\ lastOp.op = "select_files" =>
       lastOp.rows = IF HoldsAdmin(lastOp.caller) THEN file_uploads
                     ELSE OwnedBy(file_uploads, lastOp.caller)

\* a third identity, neither owner nor admin, selected while another identity
\* holds admin and a note of somebody else exists: the note was not returned
C1_Witness ==
  /\ lastOp.op = "select_notes"
  /\ lastOp.caller \in users
  /\ ~HoldsAdmin(lastOp.caller)
  /\ \E n \in notes, a \in users :
       /\ n.user_id # lastOp.caller
       /\ a # n.user_id /\ a # lastOp.caller /\ HoldsAdmin(a)
       /\ n \notin lastOp.rows

\* C2: right after its creation the first identity ever created holds exactly
\* {admin} and every identity created after it holds exactly {user}, whatever
\* the order in which the identities are created.
C2_FirstAdminRestUser ==
  (lastOp.op = "signup" /\ lastOp.result = "ok") =>
     RolesOf(lastOp.caller) = IF lastOp.caller = createdOrder[1]
                              THEN {"admin"} ELSE {"user"}

\* a later identity was created while nobody held admin any more, and still
\* got user
C2_Witness ==
  /\ lastOp.op = "signup" /\ lastOp.result = "ok"
  /\ Len(createdOrder) >= 2
  /\ lastOp.caller = createdOrder[Len(createdOrder)]
  /\ RolesOf(lastOp.caller) = {"user"}
  /\ \A u \in users : ~HoldsAdmin(u)

\* C3: identity creation and the trigger's role insert are atomic: an identity
\* that exists had exactly one role row inserted by the trigger, an identity
\* that does not exist had none and has no role row; a successful sign-up
\* leaves exactly one role row of the new identity in the table.
C3_OneTriggerRowPerIdentity ==
  /\ \A u \in Ids :
       IF u \in users THEN trigCount[u] = 1
       ELSE trigCount[u] = 0 /\ RolesOf(u) = {}
  /\ (lastOp.op = "signup" /\ lastOp.result = "ok") =>
       BagCardinality(RoleRowsOf(lastOp.caller)) = 1

\* a sign-up failed in the trigger after other identities were created: the
\* identity does not exist
C3_Witness ==
  /\ lastOp.op = "signup" /\ lastOp.result = "error"
  /\ lastOp.caller \notin users
  /\ users # {}

\* C4: every has_role evaluation made by a statement's policies returns true
\* if and only if the role table holds the row (I, r) when the statement runs,
\* so an inserted or deleted role row shows in the very next evaluation.
C4_HasRoleIsCurrent ==
  [][\A e \in lastOp'.evals :
        e.result = (\E r \in BagToSet(user_roles) :
                       r.user_id = e.uid /\ r.role = e.role)]_vars

\* the first identity, created as admin, had its admin row deleted and a later
\* statement of it evaluated has_role to false
C4_Witness ==
  /\ Len(createdOrder) >= 1
  /\ lastOp.op = "select_roles"
  /\ lastOp.caller = createdOrder[1]
  /\ lastOp.evals = {[uid |-> lastOp.caller, role |-> "admin", result |-> FALSE]}

C7_OwnerImmutable ==
  [][\A n \in notes, m \in notes' : n.id = m.id => m.user_id = n.user_id]_vars

\* the owner's update of its own note was rejected: only a user_id other than
\* the caller's makes the new row fail the policy
C7_Witness ==
  /\ lastOp.op = "update_note" /\ lastOp.result = "error"
  /\ \E n \in notes : n.id = lastOp.target /\ n.user_id = lastOp.caller

\* C8: a delete removes a notes or file_uploads row only when the caller owns
\* the row or holds admin; a delete by anybody else removes nothing.
C8_DeleteByOwnerOrAdmin ==
  [][/\ \A r \in notes :
          (\A m \in notes' : m.id # r.id) =>
             /\ lastOp'.op = "delete_note"
             /\ lastOp'.caller = r.user_id \/ HoldsAdmin(lastOp'.caller)
     /\ \A r \in file_uploads :
          (\A m \in file_uploads' : m.id # r.id) =>
             /\ lastOp'.op = "delete_file"
             /\ lastOp'.caller = r.user_id \/ HoldsAdmin(lastOp'.caller)]_vars

\* a signed-in identity that is neither owner nor admin deleted a note of
\* somebody else by id: the note is still there
C8_Witness ==
  /\ lastOp.op = "delete_note" /\ lastOp.count = 0
  /\ lastOp.caller \in users
  /\ ~HoldsAdmin(lastOp.caller)
  /\ \E n \in notes : n.id = lastOp.target /\ n.user_id # lastOp.caller

AdminSet == {r.user_id : r \in {d \in BagToSet(user_roles) : d.role = "admin"}}

\* C9: apart from the sign-up trigger, the role table changes only in a
\* statement whose caller holds admin when it runs; so does the set of
\* identities that hold admin.
C9_RoleChangeByAdminOnly ==
  [][(user_roles' # user_roles \/ AdminSet' # AdminSet) =>
        (lastOp'.op = "signup" \/ HoldsAdmin(lastOp'.caller))]_vars

\* an identity that does not hold admin tried to insert a role row and failed
C9_Witness ==
  /\ lastOp.op = "insert_role" /\ lastOp.result = "error"
  /\ lastOp.caller \in users
  /\ ~HoldsAdmin(lastOp.caller)
  /\ AdminSet # {}

\* C10: a select on user_roles performed as I returns exactly I's own role rows
\* when I does not hold admin, and all role rows when I holds admin.
C10_SelectRolesOwnOrAll ==
  lastOp.op = "select_roles" =>
     lastOp.rows = IF HoldsAdmin(lastOp.caller) THEN user_roles
                   ELSE RoleRowsOf(lastOp.caller)

\* a non-admin selected: it got its own rows and not those of the others
C10_Witness ==
  /\ lastOp.op = "select_roles"
  /\ lastOp.caller \in users
  /\ ~HoldsAdmin(lastOp.caller)
  /\ BagCardinality(lastOp.rows) >= 1
  /\ BagCardinality(user_roles) > BagCardinality(lastOp.rows)

\* C11: the role table never holds two rows with the same (user_id, role); a
\* successful insert adds one row of a pair that was absent, a rejected insert
\* leaves the table as it was, and holding both admin and user is allowed.
C11_UniqueUserRole ==
  /\ [](\A r \in BagToSet(user_roles) : user_roles[r] = 1)
  /\ [][lastOp'.op = "insert_role" =>
          IF lastOp'.result = "ok"
          THEN \E u \in Ids, r \in app_role :
                  /\ ~BagIn([user_id |-> u, role |-> r], user_roles)
                  /\ user_roles' = AddRole(user_roles, u, r)
          ELSE user_roles' = user_roles]_vars

\* every identity exists and one of them holds both roles; an admin's insert
\* was rejected: only a pair already present makes it fail
C11_Witness ==
  /\ lastOp.op = "insert_role" /\ lastOp.result = "error"
  /\ HoldsAdmin(lastOp.caller)
  /\ users = Ids
  /\ \E u \in users : RolesOf(u) = app_role

\* C12: an object of the images or documents bucket is created, removed or
\* read only by the caller whose identity is the first path segment of its
\* name; holding admin gives no access to the objects of another identity.
C12_ObjectsByFolderOwnerOnly ==
  [][/\ \A o \in objects' \ objects :
          lastOp'.op = "upload" /\ foldername1(o.name) = lastOp'.caller
     /\ \A o \in objects \ objects' :
          lastOp'.op = "remove" /\ foldername1(o.name) = lastOp'.caller
     /\ lastOp'.op = "download" =>
          \A o \in lastOp'.rows : foldername1(o.name) = lastOp'.caller]_vars

\* a holder of admin asked to remove the object of another identity: the
\* object is still there
C12_Witness ==
  /\ lastOp.op = "remove" /\ lastOp.count = 0
  /\ HoldsAdmin(lastOp.caller)
  /\ \E o \in objects : o.name = lastOp.path /\ foldername1(o.name) # lastOp.caller

\* the stored object a metadata row points at
ObjectOf(row) ==
  [bucket_id |-> IF row.category = "image" THEN "images" ELSE "documents",
   name |-> row.storage_path]

\* C15: in the upload sequence the metadata row is written only after the
\* object upload succeeded: every file_uploads row has its object, a failed
\* upload writes no row, ends the sequence and shows an error toast, and a row
\* is only ever added by the insert step that follows a stored upload.
C15_RowOnlyAfterObject ==
  /\ [](\A r \in file_uploads : ObjectOf(r) \in objects)
  /\ [][/\ (sent' = Append(sent, "upload") /\ lastOp'.result = "error") =>
             /\ file_uploads' = file_uploads
             /\ toast'.title = "Error"
             /\ flow'.pc = "idle"
        /\ file_uploads' # file_uploads =>
             /\ flow.pc = "insert"
             /\ [bucket_id |-> bucketOf(flow.comp), name |-> flow.filePath] \in objects]_vars

\* the page was reloaded between the two steps of an earlier upload, which
\* left an object without a metadata row, and the upload of the next file
\* failed: an error toast and still no row
C15_Witness ==
  /\ lastOp.op = "upload" /\ lastOp.result = "error"
  /\ toast.title = "Error"
  /\ flow.pc = "idle"
  /\ file_uploads = {}
  /\ \E o \in objects : o.name # lastOp.path

\* the checks of the claim: an image has a type starting with image/ and at
\* most 5*1024*1024 bytes, a document at most 10*1024*1024 bytes
C17_Passes(comp, file) ==
  IF comp = "ImagesGrid"
  THEN /\ Len(file.type) >= 2 /\ file.type[1] = "image" /\ file.type[2] = "/"
       /\ file.size <= 5 * 1024 * 1024
  ELSE file.size <= 10 * 1024 * 1024

\* C17: a selected file is submitted only if it passes the client-side checks:
\* an upload sequence is only ever in flight for a passing file, objects and
\* metadata rows are only written by such a sequence, and a violating file
\* leaves the store as it was with no request sent.
C17_OnlyCheckedFilesSubmitted ==
  [][/\ flow'.pc # "idle" => C17_Passes(flow'.comp, flow'.file)
     /\ (objects' # objects \/ file_uploads' # file_uploads) =>
           (flow.pc # "idle" /\ C17_Passes(flow.comp, flow.file))
     /\ (toast' # toast /\ toast'.description \in
            {"Please select an image file", "Image must be less than 5MB",
             "File must be less than 10MB"}) =>
           /\ sent' = <<>>
           /\ objects' = objects /\ file_uploads' = file_uploads
           /\ flow'.pc = "idle"]_vars

\* an image one byte over the limit was selected by a signed-in identity that
\* has uploaded before: it was turned down and nothing was sent
C17_Witness ==
  /\ toast.description = "Image must be less than 5MB"
  /\ sent = <<>>
  /\ session # Anon
  /\ file_uploads # {}

\* C13: when a holder of admin who is not the owner deletes, through the admin
\* panel, a file whose object is stored, the file_uploads row is deleted, the
\* object stays in its bucket (only its owner can remove it), and no metadata
\* row points at the object any more.
C13_AdminDeleteLeavesObject ==
  [][\A r \in file_uploads :
        ( /\ r.id \in panel.files \ panel'.files
          /\ lastOp'.op = "delete_file" /\ lastOp'.target = r.id
          /\ HoldsAdmin(lastOp'.caller)
          /\ r.user_id # lastOp'.caller
          /\ ObjectOf(r) \in objects ) =>
        ( /\ r \notin file_uploads'
          /\ ObjectOf(r) \in objects'
          /\ \A q \in file_uploads' : q.storage_path # r.storage_path )]_vars

\* the admin panel reported the file deleted; the caller holds admin, the
\* object lies in the folder of another identity and has no metadata row
C13_Witness ==
  /\ lastOp.op = "delete_file" /\ lastOp.count = 1
  /\ toast.description = "File deleted successfully"
  /\ HoldsAdmin(lastOp.caller)
  /\ \E o \in objects :
       /\ foldername1(o.name) # lastOp.caller
       /\ \A q \in file_uploads : q.storage_path # o.name

\* C14: over every update of a note updated_at never decreases, and after an
\* update that touched the note it equals the store's clock, whatever
\* updated_at the statement supplied.
C14_UpdatedAtMonotone ==
  [][\A n \in notes, m \in notes' :
        n.id = m.id =>
          /\ m.updated_at >= n.updated_at
          /\ (lastOp'.op = "update_note" /\ lastOp'.count = 1
                /\ lastOp'.target = m.id /\ m # n) => m.updated_at = now']_vars

\* the notes the claim wants rejected: the content as typed exceeds 10,000
\* characters, or the title is empty after trimming or exceeds 200 characters
C16_InvalidAsTyped(f) ==
  \/ length(f.content) > 10000
  \/ length(trim(f.title)) < 1
  \/ length(trim(f.title)) > 200

\* the same with the content measured after trimming, as the title is
C16_InvalidTrimmed(f) ==
  \/ length(trim(f.content)) > 10000
  \/ length(trim(f.title)) < 1
  \/ length(trim(f.title)) > 200

\* C16 as stated: a create or update through NotesList of a note whose content
\* exceeds 10,000 characters, or whose title is empty after trimming or
\* exceeds 200 characters, sends no request and leaves the store unchanged.
C16_RejectedBeforeAnyRequest ==
  [][C16_InvalidAsTyped(form) =>
        /\ notes' = notes
        /\ (sent' # sent => sent' = <<>>)]_vars

\* C16 amended: the same for a note whose content after trimming exceeds
\* 10,000 characters, or whose title after trimming is empty or exceeds 200
\* characters; and a validation toast is only shown with no request sent.
C16_RejectedBeforeAnyRequestTrimmed ==
  [][/\ C16_InvalidTrimmed(form) =>
          /\ notes' = notes
          /\ (sent' # sent => sent' = <<>>)
     /\ (toast' # toast /\ toast'.description \in
            {"Title is required", "Title too long", "Content too long"}) =>
          /\ C16_InvalidTrimmed(form)
          /\ sent' = <<>> /\ notes' = notes /\ lastOp' = lastOp]_vars

\* a signed-in identity that has a note submitted a content of 10,001
\* characters: it was turned down with no request sent
C16_Witness ==
  /\ toast.description = "Content too long"
  /\ sent = <<>>
  /\ length(trim(form.content)) = 10001
  /\ session # Anon
  /\ notes # {}

\* C18: a statement whose policy predicate is false for the caller, here the
\* update of a note by somebody who is not its owner or the delete of a note
\* by somebody who is neither its owner nor a holder of admin, leaves the note
\* in the table, is answered with an error and shows an error toast.
C18_DenialSurfacedAsFailure ==
  \A n \in notes :
     ( /\ lastOp.target = n.id
       /\ \/ /\ lastOp.op = "update_note" /\ sent = <<"notes.update">>
             /\ lastOp.caller # n.user_id
          \/ /\ lastOp.op = "delete_note" /\ sent = <<"notes.delete">>
             /\ lastOp.caller # n.user_id /\ ~HoldsAdmin(lastOp.caller) ) =>
     ( lastOp.result = "error" /\ toast.title = "Error" )

C19_IdentityIffProfile ==
  \A u \in Ids : u \in users <=> u \in profiles

C22_UploadedRowsWellFormed ==
  \A r \in file_uploads :
     /\ r.category \in {"image", "document"}
     /\ r.storage_path[1] = r.user_id

\* an upload has gone through to its row
C22_Witness ==
  /\ lastOp.op = "insert_file" /\ lastOp.result = "ok"
  /\ sent = <<"getUser", "upload", "insert">>
  /\ \E r \in file_uploads : r.id = lastOp.target /\ r.category = "document"

\* C23: the update of a note sent by its owner is applied whatever the tab had
\* read and whatever other update was in flight, and the note's title and
\* content are those of the update the store executed last.
C23_LastWriteWins ==
  \A r \in inflight : \A n \in notes :
     (r.status = "done" /\ n.id = r.id /\ n.user_id = r.caller) =>
        /\ r.applied
        /\ r.last => (n.title = r.title /\ n.content = r.content)

\* two tabs of the owner had updates of the same note in flight together, with
\* different titles; both were executed and the note has the later title
C23_Witness ==
  \E r1 \in inflight, r2 \in inflight, n \in notes :
     /\ r1.tab # r2.tab
     /\ r1.status = "done" /\ r2.status = "done"
     /\ r1.caller = n.user_id /\ r2.caller = n.user_id
     /\ r1.id = n.id /\ r2.id = n.id
     /\ r2.overlap /\ r2.last /\ ~r1.last
     /\ r1.title # r2.title
     /\ r2.seen # r1.title
     /\ n.title = r2.title

\* C24: in the delete sequence of ImagesGrid and DocumentsList the object is
\* removed first and the file_uploads row is deleted only after the removal
\* reported no error; a removal that reports an error keeps the row and ends
\* the sequence; and when the owner's second step fails the row stays while
\* the object its storage_path names is gone.
C24_ObjectFirstThenRow ==
  [][/\ \A r \in file_uploads \ file_uploads' :
          /\ flow.pc = "delete" /\ flow.row = r
          /\ ~flow.storageError
          /\ sent = <<"remove">>
     /\ (flow.pc # "delete" /\ flow'.pc = "delete") =>
          /\ lastOp'.op = "remove" /\ lastOp'.result = "ok"
          /\ file_uploads' = file_uploads
     /\ (lastOp'.op = "remove" /\ lastOp'.result = "error") =>
          /\ file_uploads' = file_uploads
          /\ flow'.pc # "delete"
     /\ ( /\ flow.pc = "delete" /\ flow'.pc = "idle"
          /\ lastOp'.result = "error"
          /\ flow.user = flow.row.user_id /\ session = flow.user ) =>
          /\ flow.row \in file_uploads'
          /\ ObjectOf(flow.row) \notin objects'
          /\ toast'.title = "Error"]_vars

\* the owner's removal went through and the delete of the row failed: the row
\* is left pointing at no object
C24_Witness ==
  /\ lastOp.op = "delete_file" /\ lastOp.result = "error"
  /\ sent = <<"remove", "file_uploads.delete">>
  /\ toast.title = "Error"
  /\ \E r \in file_uploads :
        /\ r.id = lastOp.target /\ r.user_id = session
        /\ ObjectOf(r) \notin objects

\* C25: after a successful delete of a user's profile in the admin panel, the
\* notes and profiles lists the panel shows are what a fresh select by the
\* caller returns: the notes it stopped showing are no longer in the store.
C25_PanelEqualsStoreAfterMutation ==
  ( /\ lastOp.op = "delete_profile" /\ lastOp.result = "ok"
    /\ lastOp.caller = session
    /\ sent = <<"profiles.delete">> /\ toast.title = "Success" ) =>
  ( /\ panel.notes = {n.id : n \in {m \in notes : notes_select(session, m)}}
    /\ panel.profiles = {u \in profiles : profiles_select(session, u)} )

\* C26: under any interleaving of concurrent sign-ups, at most one identity is
\* given the admin role by handle_new_user_role.
C26_AtMostOneTriggerAdmin ==
  Cardinality({u \in users : BagIn([user_id |-> u, role |-> "admin"], user_roles)}) <= 1

\* C27: once the first identity has been created, at least one identity holds
\* the admin role, whatever role inserts and deletes the user_roles policies
\* let through.
C27_AlwaysSomeAdmin ==
  users # {} => \E u \in users : HoldsAdmin(u)

\* C28: every upload attempt started by handleFileChange returns the
\* uploading flag to false in the end, whether the mutation succeeds or fails.
C28_UploadingEventuallyFalse ==
  uploading ~> ~uploading

\* C29: once every check of useAdminRole that was started has completed,
\* isLoading is false and isAdmin tells whether the user signed in now holds
\* admin (false when nobody is signed in): an earlier check never overwrites
\* the result of a later one.
C29_SettledFlagIsCurrent ==
  (Mounted /\ inflight = {}) =>
     /\ ~isLoading
     /\ isAdmin = (session # Anon /\ HoldsAdmin(session))

\* C30: every note row written by createMutation and updateMutation of
\* NotesList is stored with a title of 1 to 200 characters and a content of at
\* most 10,000 characters.
C30_StoredNotesWithinLimits ==
  \A n \in notes :
     /\ length(n.title) >= 1 /\ length(n.title) <= TitleMax
     /\ length(n.content) <= ContentMax
====
